---- MODULE Spec2Model ----
(***************************************************************************)
(* A model of the audio transcription / Q&A request handler:               *)
(*   src/lambda_handler.py  lambda_handler, get_transcript_from_s3,        *)
(*                          qa_with_claude                                 *)
(*   src/services.py        process_audio_file, analyze_with_claude,       *)
(*                          validate_audio_file                            *)
(* One warm process serves a bounded number of invocations one after the   *)
(* other (handler() runs each to completion with asyncio.run).  Object     *)
(* storage, the speech model and the hosted language model are the         *)
(* environment: each call either raises or returns a value drawn from a    *)
(* small set.                                                              *)
(*                                                                         *)
(* Python strings whose characters matter (object keys, the hosted model's *)
(* reply) are sequences of one-character strings; Python dicts are         *)
(* functions whose DOMAIN is the set of keys present.                      *)
(***************************************************************************)
EXTENDS Integers, Sequences, FiniteSets, TLC

(***************************************************************************)
(* Bounds of the model.                                                    *)
(***************************************************************************)
\* invocations one process serves in a behaviour
MaxInvocations == 2
\* length of the Records list of an event
MaxRecords == 2
\* last tick of the clock
MaxTime == 2
\* length, in tokens, of the hosted model's reply when the reply space of
\* the Analysis Adapter is explored
MaxReplyLen == 4
\* length of the middle part of an object key when the key space of
\* validate_audio_file is explored
MaxStem == 2

(***************************************************************************)
(* Python built-ins used by the code.                                      *)
(***************************************************************************)
Max(a, b) == IF a > b THEN a ELSE b
Min(a, b) == IF a < b THEN a ELSE b

\* the value Python's None
None == "<None>"

\* dict.get(key, default)
Get(d, k, default) == IF k \in DOMAIN d THEN d[k] ELSE default

\* truthiness of a str-or-None value: `not v` holds for None and ""
Falsy(v) == v = None \/ v = ""

\* str.find(c): 0-based index of the first occurrence, -1 if there is none
find(s, c) ==
    IF \E i \in 1..Len(s) : s[i] = c
    THEN (CHOOSE i \in 1..Len(s) : s[i] = c /\ \A j \in 1..(i - 1) : s[j] # c) - 1
    ELSE -1

\* str.rfind(c): 0-based index of the last occurrence, -1 if there is none
rfind(s, c) ==
    IF \E i \in 1..Len(s) : s[i] = c
    THEN (CHOOSE i \in 1..Len(s) : s[i] = c /\ \A j \in (i + 1)..Len(s) : s[j] # c) - 1
    ELSE -1

\* s[start:end] with Python's rules: a negative index counts from the end,
\* indices are clamped to [0, len], an inverted range is empty
Slice(s, start, end) ==
    LET norm(i) == IF i < 0 THEN Max(i + Len(s), 0) ELSE Min(i, Len(s))
    IN  SubSeq(s, norm(start) + 1, norm(end))

\* s.startswith(p)
startswith(s, p) == Len(s) >= Len(p) /\ SubSeq(s, 1, Len(p)) = p

Uppers == <<"A", "B", "C", "D", "E", "F", "G", "H", "I", "J", "K", "L", "M",
            "N", "O", "P", "Q", "R", "S", "T", "U", "V", "W", "X", "Y", "Z">>
Lowers == <<"a", "b", "c", "d", "e", "f", "g", "h", "i", "j", "k", "l", "m",
            "n", "o", "p", "q", "r", "s", "t", "u", "v", "w", "x", "y", "z">>

\* str.lower()
lower(s) ==
    [i \in 1..Len(s) |->
        IF \E u \in 1..Len(Uppers) : Uppers[u] = s[i]
        THEN Lowers[CHOOSE u \in 1..Len(Uppers) : Uppers[u] = s[i]]
        ELSE s[i]]

\* os.path.splitext(p)[1]: the extension starts at the last dot of the last
\* path segment, unless that segment has only dots before it
splitext(p) ==
    LET sepIndex == rfind(p, "/")
        dotIndex == rfind(p, ".")
    IN  IF /\ dotIndex > sepIndex
           /\ \E f \in (sepIndex + 1)..(dotIndex - 1) : p[f + 1] # "."
        THEN Slice(p, dotIndex, Len(p))
        ELSE <<>>

\* a slip: the text after the first separator
FirstSeparatorSegment(key) == Slice(key, find(key, "/") + 1, Len(key))

\* key.split('/')[-1]
LastSegment(key) == Slice(key, rfind(key, "/") + 1, Len(key))

(***************************************************************************)
(* validate_audio_file (services.py)                                       *)
(***************************************************************************)
AudioPrefix == <<"a", "u", "d", "i", "o", "/">>

allowed_extensions ==
    { <<".", "m", "p", "3">>, <<".", "w", "a", "v">>, <<".", "m", "4", "a">>,
      <<".", "f", "l", "a", "c">>, <<".", "o", "g", "g">>, <<".", "a", "a", "c">> }

\* a slip: the key is not lower-cased before its extension is taken
ValidateCaseSensitive(file_key) ==
    IF ~startswith(file_key, AudioPrefix)
    THEN FALSE
    ELSE splitext(file_key) \in allowed_extensions

validate_audio_file(file_key) ==
    IF ~startswith(file_key, AudioPrefix)
    THEN FALSE
    ELSE splitext(lower(file_key)) \in allowed_extensions

(***************************************************************************)
(* JSON.  A document travelling to or from storage or the caller is the    *)
(* serialised text of a dict: json_dumps wraps the dict, json_loads_body   *)
(* unwraps it or fails on a body that is no such text.  The hosted model's *)
(* reply is parsed token by token: in a reply "k" stands for a member name *)
(* with its colon, "1" for a number and "x" for prose.                     *)
(***************************************************************************)
\* json.dumps(obj, indent=indent); indent 0 is the compact default
json_dumps(obj, indent) == [json |-> obj, indent |-> indent]

IsJsonText(body) == "json" \in DOMAIN body

\* json.loads of a stored body that IsJsonText
json_loads_body(body) == body.json

ReplyAlphabet == {"{", "}", "k", "1", "x"}

\* two replies: a JSON object between prose, and prose only
SampleReplies == { <<"x", "{", "k", "1", "}", "x">>, <<"x", "x", "x", "x">> }

\* every reply text of at most n tokens
Replies(n) == UNION { [1..m -> ReplyAlphabet] : m \in 0..n }

\* json.loads(json_str) on reply tokens: [ok |-> TRUE, value |-> v] or, for
\* json.JSONDecodeError, [ok |-> FALSE].  An object is the function from its
\* member names to their values, the number is [number |-> 1].
RECURSIVE json_loads(_)
json_loads(s) ==
    IF s = <<"1">>
    THEN [ok |-> TRUE, value |-> [number |-> 1]]
    ELSE IF Len(s) >= 2 /\ s[1] = "{" /\ s[Len(s)] = "}"
    THEN LET inner == SubSeq(s, 2, Len(s) - 1)
         IN  IF inner = <<>>
             THEN [ok |-> TRUE, value |-> <<>>]
             ELSE IF inner[1] = "k"
             THEN LET member == json_loads(Tail(inner))
                  IN  IF member.ok
                      THEN [ok |-> TRUE, value |-> [k |-> member.value]]
                      ELSE [ok |-> FALSE]
             ELSE [ok |-> FALSE]
    ELSE [ok |-> FALSE]

(***************************************************************************)
(* analyze_with_claude, from the reply text on (services.py 111-125)       *)
(***************************************************************************)
\* analysis_text[:500] keeps the first 500 characters; the model scales the
\* limit to the length of its replies so that the truncation happens
SummaryLimit == 3

\* a slip: the object is cut at the first closing brace
ExtractToFirstBrace(analysis_text) ==
    LET json_start == find(analysis_text, "{")
        json_end == find(analysis_text, "}") + 1
    IN  Slice(analysis_text, json_start, json_end)

\* analysis_text[json_start:json_end]
ExtractJsonStr(analysis_text) ==
    LET json_start == find(analysis_text, "{")
        json_end == rfind(analysis_text, "}") + 1
    IN  Slice(analysis_text, json_start, json_end)

\* the dict of the except branch
DegradedAnalysis(analysis_text) ==
    [summary |-> Slice(analysis_text, 0, SummaryLimit),
     error |-> "Failed to parse structured response",
     raw_response |-> analysis_text]

\* the try/except around json.loads: the analysis returned for a reply
ParseAnalysis(analysis_text) ==
    LET parsed == json_loads(ExtractJsonStr(analysis_text))
    IN  IF parsed.ok THEN parsed.value ELSE DegradedAnalysis(analysis_text)

(***************************************************************************)
(* The inputs: events, storage contents, the clock.                        *)
(***************************************************************************)
Buckets == {"b1", "b2"}

\* object keys of S3 notifications
KeyCall1 == <<"a", "u", "d", "i", "o", "/", "c", "1", ".", "m", "p", "3">>
KeyUpper == <<"a", "u", "d", "i", "o", "/", "d", "/", "C", "2", ".", "M", "P", "3">>
KeyXyz == <<"a", "u", "d", "i", "o", "/", "c", ".", "x", "y", "z">>
KeyOutside == <<"i", "n", "/", "c", "1", ".", "m", "p", "3">>

\* one S3 notification record
S3Record(bucket, key) ==
    [s3 |-> [bucket |-> [name |-> bucket], object |-> [key |-> key]]]

\* a record that is no S3 notification: it has no "s3" member
ForeignRecord == [eventSource |-> "aws:sns"]

FirstRecords ==
    { S3Record("b1", KeyCall1), S3Record("b2", KeyUpper), S3Record("b1", KeyXyz),
      S3Record("b1", KeyOutside), ForeignRecord }

\* what may follow the first record: a well-formed record for another bucket
LaterRecords == { S3Record("b2", KeyCall1) }

\* the Records lists of at most MaxRecords records
RecordLists ==
    {<<>>} \cup
    UNION { { <<first>> \o rest : first \in FirstRecords,
                                  rest \in [1..(m - 1) -> LaterRecords] } :
            m \in 1..MaxRecords }

\* the clock counts ticks; the timestamp shows whole seconds
TicksPerSecond == 2

\* datetime.now().strftime("%Y%m%d_%H%M%S")
strftime(t) == ToString(t \div TicksPerSecond)

\* f"transcripts/{timestamp}.json"
ResultKey(timestamp) == "transcripts/" \o timestamp \o ".json"

\* objects the bucket b1 holds before the process starts
StoredText == json_dumps([text |-> "T3"], 2)
StoredAll == json_dumps([original_transcript |-> "T1", transcript |-> "T2", text |-> "T3"], 2)
StoredTranscript == json_dumps([transcript |-> "T2", text |-> "T3"], 2)
StoredEmptyFirst == json_dumps([original_transcript |-> "", transcript |-> "T2"], 2)
StoredNoField == json_dumps([id |-> "T0"], 2)
StoredGarbage == [raw |-> "not json"]

S3Object(body) == [Body |-> body, ContentType |-> "application/json"]

InitialObjects ==
    [k \in {"transcripts/text.json", "transcripts/all.json", "transcripts/tr.json",
            "transcripts/empty.json", "transcripts/none.json", "transcripts/bad.json"} |->
        CASE k = "transcripts/text.json" -> S3Object(StoredText)
          [] k = "transcripts/all.json" -> S3Object(StoredAll)
          [] k = "transcripts/tr.json" -> S3Object(StoredTranscript)
          [] k = "transcripts/empty.json" -> S3Object(StoredEmptyFirst)
          [] k = "transcripts/none.json" -> S3Object(StoredNoField)
          [] k = "transcripts/bad.json" -> S3Object(StoredGarbage)]

TranscriptFiles ==
    DOMAIN InitialObjects \cup {"transcripts/gone.json"} \cup
    { ResultKey(strftime(t)) : t \in 0..MaxTime }

\* a dict with the members of `names`, each with the value `values` gives it
Dict(names, values) == [n \in names |-> values[n]]

TranscribeEvents ==
    { Dict(names, [operation |-> "transcribe", Records |-> records]) :
        names \in SUBSET {"operation", "Records"}, records \in RecordLists }

QnaEvents ==
    { Dict({"operation"} \cup names,
           [operation |-> "q_n_a", transcript_file |-> file,
            transcript_bucket |-> bucket, question |-> question]) :
        names \in SUBSET {"transcript_file", "transcript_bucket", "question"},
        file \in TranscriptFiles \cup {""}, bucket \in {"b1"}, question \in {"q?", ""} }

Events == TranscribeEvents \cup QnaEvents \cup {[operation |-> "bogus"]}

\* what model.transcribe returns
WhisperResults == { [text |-> "hello", duration |-> 3], [text |-> ""] }

\* the value of the environment variable when it is set
ProfileArn == "arn:aws:bedrock:inference-profile"

(***************************************************************************)
(* The state of one process.                                               *)
(***************************************************************************)
VARIABLES
    pc,                     \* where the invocation in progress stands; "idle" between invocations
    event,                  \* the event of the current (or last) invocation
    frame,                  \* the local variables of the invocation in progress
    response,               \* what the last invocation returned
    exc,                    \* the last exception raised in the current (or last) invocation
    calls,                  \* the external calls of the current (or last) invocation, in order
    invocations,            \* invocations started so far
    store,                  \* object storage: bucket -> key -> object
    fs,                     \* the local file system: path -> size, for the files that exist
    loads,                  \* whisper.load_model calls made by this process
    INFERENCE_PROFILE_ARN,  \* os.environ.get('INFERENCE_PROFILE_ARN'): None when unset.  The
                            \* sources assign the variable "for local testing" just
                            \* before reading it; the model takes the value from the
                            \* deployment, which may leave it unset or empty.
    temp_dir                \* "/tmp" under AWS_LAMBDA_FUNCTION_NAME, "." otherwise

vars == <<pc, event, frame, response, exc, calls, invocations, store, fs, loads,
          INFERENCE_PROFILE_ARN, temp_dir>>

NoResponse == [none |-> TRUE]
NoExc == [type |-> "none"]
Exception(type, msg) == [type |-> type, msg |-> msg]

\* {'statusCode': status, 'body': json.dumps(body)}
Response(status, body) == [statusCode |-> status, body |-> json_dumps(body, 0)]

\* a slip: the 500 hides the exception's message
OpaqueExcept(e) ==
    [statusCode |-> 500,
     body |-> json_dumps([error |-> <<"Internal server error">>], 0),
     headers |-> [ContentType |-> "application/json", AccessControlAllowOrigin |-> "*"]]

\* the response of the outermost except clause (lambda_handler.py 210-221)
HandlerExcept(e) ==
    [statusCode |-> 500,
     body |-> json_dumps([error |-> e.msg], 0),
     headers |-> [ContentType |-> "application/json", AccessControlAllowOrigin |-> "*"]]

\* a slip: every failure of the q_n_a branch is reported as not found
QnaExceptNotFound(e) == Response(404, [error |-> <<"Error processing Q&A: ">> \o e.msg])

\* the response of the except clause of the q_n_a branch (lambda_handler.py 194-200)
QnaExcept(e) == Response(500, [error |-> <<"Error processing Q&A: ">> \o e.msg])

Called(op, ok) == [op |-> op, ok |-> ok]

\* a hosted-model call that returned `text` (response_body['content'][0]['text'])
Replied(op, text) == [op |-> op, ok |-> TRUE, text |-> text]

\* os.path.exists / os.path.getsize / os.remove
exists(path) == path \in DOMAIN fs
remove(files, path) == [q \in DOMAIN files \ {path} |-> files[q]]

\* the invocation ends with `resp`
Return(resp) ==
    /\ pc' = "idle"
    /\ response' = resp
    /\ frame' = <<>>

\* process_audio_file leaves its try block with exception e
Raise(e) ==
    /\ exc' = e
    /\ pc' = "finally"

Environment == <<INFERENCE_PROFILE_ARN, temp_dir>>

\* the bucket b1 holds the transcripts written earlier, b2 is empty
InitialStore == [b \in Buckets |-> IF b = "b1" THEN InitialObjects ELSE <<>>]

Init ==
    /\ pc = "idle"
    /\ event = <<>>
    /\ frame = <<>>
    /\ response = NoResponse
    /\ exc = NoExc
    /\ calls = <<>>
    /\ invocations = 0
    /\ store = InitialStore
    /\ fs = <<>>
    /\ loads = 0
    /\ INFERENCE_PROFILE_ARN \in {None, "", ProfileArn}
    /\ temp_dir \in {"/tmp", "."}

\* a slip: the question is not checked
MissingFileOrBucket(transcript_file, transcript_bucket, question) ==
    Falsy(transcript_file) \/ Falsy(transcript_bucket)

\* not all([transcript_file, transcript_bucket, question]) (lambda_handler.py 157)
MissingParameters(transcript_file, transcript_bucket, question) ==
    Falsy(transcript_file) \/ Falsy(transcript_bucket) \/ Falsy(question)

\* a slip: the operation has no default
OperationRequired(ev) == Get(ev, "operation", None)

\* event.get('operation', 'transcribe') (lambda_handler.py 117)
OperationField(ev) == Get(ev, "operation", "transcribe")

\* a slip: the newest record of the batch is taken
LastRecord(records) == records[Len(records)]

\* record = records[0] (lambda_handler.py 130)
FirstRecord(records) == records[1]

(***************************************************************************)
(* lambda_handler up to the first external call (lambda_handler.py 115-163,*)
(* 202-221): dispatch on the operation and validate.                       *)
(***************************************************************************)
LambdaHandler(ev) ==
    /\ pc = "idle"
    /\ invocations < MaxInvocations
    /\ invocations' = invocations + 1
    /\ event' = ev
    /\ calls' = <<>>
    /\ LET operation == OperationField(ev)
       IN  IF operation = "transcribe"
           THEN LET records == Get(ev, "Records", <<>>)
                IN  IF records = <<>>
                    THEN /\ exc' = NoExc
                         /\ Return(Response(400,
                                [error |-> <<"Missing S3 event records for transcription">>]))
                    ELSE IF "s3" \notin DOMAIN FirstRecord(records)
                    THEN \* record['s3'] raises KeyError, caught by the outermost except
                         /\ exc' = Exception("KeyError", <<"'s3'">>)
                         /\ Return(HandlerExcept(exc'))
                    ELSE LET record == FirstRecord(records)
                             bucket == record.s3.bucket.name
                             key == record.s3.object.key
                             filename == LastSegment(key)
                         IN  IF ~validate_audio_file(key)
                             THEN /\ exc' = NoExc
                                  /\ Return(Response(400,
                                        [error |-> <<"Invalid file type or location. Please upload audio files to the audio/ folder.">>]))
                             ELSE /\ exc' = NoExc
                                  /\ pc' = "download"
                                  /\ response' = NoResponse
                                  /\ frame' = [bucket |-> bucket, key |-> key,
                                               filename |-> filename,
                                               temp_audio_path |-> <<temp_dir, "/">> \o filename]
           ELSE IF operation = "q_n_a"
           THEN LET transcript_file == Get(ev, "transcript_file", None)
                    transcript_bucket == Get(ev, "transcript_bucket", None)
                    question == Get(ev, "question", None)
                IN  IF MissingParameters(transcript_file, transcript_bucket, question)
                    THEN /\ exc' = NoExc
                         /\ Return(Response(400,
                                [error |-> <<"Missing required parameters: transcript_file, transcript_bucket, and question">>]))
                    ELSE /\ exc' = NoExc
                         /\ pc' = "get_transcript"
                         /\ response' = NoResponse
                         /\ frame' = [transcript_file |-> transcript_file,
                                      transcript_bucket |-> transcript_bucket,
                                      question |-> question]
           ELSE /\ exc' = NoExc
                /\ Return(Response(400, [error |-> <<"Invalid operation: ", operation>>]))
    /\ UNCHANGED <<store, fs, loads, Environment>>

(***************************************************************************)
(* process_audio_file (services.py 131-204), one action per step.          *)
(***************************************************************************)
\* a slip: a download that raised is tried once more
DownloadRetrying ==
    /\ pc = "download"
    /\ \/ /\ calls' = Append(calls, Called("download_file", FALSE))
          /\ IF calls = <<>>
             THEN UNCHANGED <<pc, exc>>
             ELSE Raise(Exception("ClientError", <<"download_file failed">>))
          /\ UNCHANGED fs
       \/ \E size \in {0, 1} :
            /\ calls' = Append(calls, Called("download_file", TRUE))
            /\ fs' = (frame.temp_audio_path :> size) @@ fs
            /\ IF size = 0
               THEN Raise(Exception("ValueError", <<"Downloaded file is empty">>))
               ELSE pc' = "load_model" /\ UNCHANGED exc
       \/ /\ ~exists(frame.temp_audio_path)
          /\ calls' = Append(calls, Called("download_file", TRUE))
          /\ Raise(Exception("FileNotFoundError",
                             <<"File not found: ">> \o frame.temp_audio_path))
          /\ UNCHANGED fs
    /\ UNCHANGED <<event, frame, response, invocations, store, loads, Environment>>

\* a slip: the downloaded file is handed on without the two checks
DownloadUnchecked ==
    /\ pc = "download"
    /\ \/ /\ calls' = Append(calls, Called("download_file", FALSE))
          /\ Raise(Exception("ClientError", <<"download_file failed">>))
          /\ UNCHANGED fs
       \/ \E size \in {0, 1} :
            /\ calls' = Append(calls, Called("download_file", TRUE))
            /\ fs' = (frame.temp_audio_path :> size) @@ fs
            /\ pc' = "load_model"
            /\ UNCHANGED exc
       \/ /\ ~exists(frame.temp_audio_path)
          /\ calls' = Append(calls, Called("download_file", TRUE))
          /\ pc' = "load_model"
          /\ UNCHANGED <<fs, exc>>
    /\ UNCHANGED <<event, frame, response, invocations, store, loads, Environment>>

\* s3_client.download_file and the checks on the downloaded file (139-147)
DownloadFile ==
    /\ pc = "download"
    /\ \/ \* the download raises; nothing is written to the target path
          /\ calls' = Append(calls, Called("download_file", FALSE))
          /\ Raise(Exception("ClientError", <<"download_file failed">>))
          /\ UNCHANGED fs
       \/ \* the download returns, and the file holds `size` bytes
          \E size \in {0, 1} :
            /\ calls' = Append(calls, Called("download_file", TRUE))
            /\ fs' = (frame.temp_audio_path :> size) @@ fs
            /\ IF size = 0
               THEN Raise(Exception("ValueError", <<"Downloaded file is empty">>))
               ELSE pc' = "load_model" /\ UNCHANGED exc
       \/ \* the download returns, and there is no file at the target path
          /\ ~exists(frame.temp_audio_path)
          /\ calls' = Append(calls, Called("download_file", TRUE))
          /\ Raise(Exception("FileNotFoundError",
                             <<"File not found: ">> \o frame.temp_audio_path))
          /\ UNCHANGED fs
    /\ UNCHANGED <<event, frame, response, invocations, store, loads, Environment>>

\* whisper.load_model("medium").to(device) (149-151)
LoadModel ==
    /\ pc = "load_model"
    /\ loads' = loads + 1
    /\ \/ /\ calls' = Append(calls, Called("load_model", TRUE))
          /\ pc' = "transcribe"
          /\ UNCHANGED exc
       \/ /\ calls' = Append(calls, Called("load_model", FALSE))
          /\ Raise(Exception("RuntimeError", <<"load_model failed">>))
    /\ UNCHANGED <<event, frame, response, invocations, store, fs, Environment>>

\* model.transcribe(temp_audio_path, ...) (153-161)
Transcribe ==
    /\ pc = "transcribe"
    /\ \/ \E result \in WhisperResults :
            /\ calls' = Append(calls, Called("transcribe", TRUE))
            /\ frame' = ("result" :> result) @@ frame
            /\ pc' = "analyze"
            /\ UNCHANGED exc
       \/ /\ calls' = Append(calls, Called("transcribe", FALSE))
          /\ Raise(Exception("RuntimeError", <<"transcribe failed">>))
          /\ UNCHANGED frame
    /\ UNCHANGED <<event, response, invocations, store, fs, loads, Environment>>

\* a slip: a failed hosted-model call is swallowed and the run goes on with a
\* degraded analysis
AnalyzeSwallowingFailure(replies) ==
    /\ pc = "analyze"
    /\ IF Falsy(INFERENCE_PROFILE_ARN)
       THEN /\ Raise(Exception("ValueError",
                        <<"INFERENCE_PROFILE_ARN environment variable is not set">>))
            /\ UNCHANGED <<calls, frame>>
       ELSE \/ /\ calls' = Append(calls, Called("invoke_model", FALSE))
               /\ frame' = [analysis_text |-> <<>>,
                            analysis |-> DegradedAnalysis(<<>>)] @@ frame
               /\ pc' = "persist"
               /\ UNCHANGED exc
            \/ \E analysis_text \in replies :
                 /\ calls' = Append(calls, Replied("invoke_model", analysis_text))
                 /\ frame' = [analysis_text |-> analysis_text,
                              analysis |-> ParseAnalysis(analysis_text)] @@ frame
                 /\ pc' = "persist"
                 /\ UNCHANGED exc
    /\ UNCHANGED <<event, response, invocations, store, fs, loads, Environment>>

\* a slip: the deployment identifier is not checked before the call
AnalyzeUnguarded(replies) ==
    /\ pc = "analyze"
    /\ \/ /\ calls' = Append(calls, Called("invoke_model", FALSE))
          /\ Raise(Exception("ClientError", <<"invoke_model failed">>))
          /\ UNCHANGED frame
       \/ \E analysis_text \in replies :
            /\ calls' = Append(calls, Replied("invoke_model", analysis_text))
            /\ frame' = [analysis_text |-> analysis_text,
                         analysis |-> ParseAnalysis(analysis_text)] @@ frame
            /\ pc' = "persist"
            /\ UNCHANGED exc
    /\ UNCHANGED <<event, response, invocations, store, fs, loads, Environment>>

\* analysis = await analyze_with_claude(result["text"]) (163-165, 29-129)
AnalyzeWithClaude(replies) ==
    /\ pc = "analyze"
    /\ IF Falsy(INFERENCE_PROFILE_ARN)
       THEN /\ Raise(Exception("ValueError",
                        <<"INFERENCE_PROFILE_ARN environment variable is not set">>))
            /\ UNCHANGED <<calls, frame>>
       ELSE \/ \* bedrock_runtime.invoke_model raises
               /\ calls' = Append(calls, Called("invoke_model", FALSE))
               /\ Raise(Exception("ClientError", <<"invoke_model failed">>))
               /\ UNCHANGED frame
            \/ \* it returns a reply
               \E analysis_text \in replies :
                 /\ calls' = Append(calls, Replied("invoke_model", analysis_text))
                 /\ frame' = [analysis_text |-> analysis_text,
                              analysis |-> ParseAnalysis(analysis_text)] @@ frame
                 /\ pc' = "persist"
                 /\ UNCHANGED exc
    /\ UNCHANGED <<event, response, invocations, store, fs, loads, Environment>>

\* the Result Document (167-181)
CompleteResult(timestamp, filename, result, analysis) ==
    [id |-> timestamp,
     filename |-> filename,
     metadata |-> [processed_at |-> timestamp,
                   audio_duration |-> Get(result, "duration", 0),
                   model_used |-> "Claude 3.5",
                   whisper_model |-> "medium"],
     original_transcript |-> result.text,
     analysis |-> analysis]

\* the storage after put_object(Bucket, Key, Body, ContentType)
put_object(s, bucket, key, body) ==
    [s EXCEPT ![bucket] = (key :> S3Object(body)) @@ s[bucket]]

\* timestamp, complete_result and s3_client.put_object (167-193)
PutObject ==
    /\ pc = "persist"
    /\ \E t \in 0..MaxTime :    \* what datetime.now() reads
         LET timestamp == strftime(t)
             complete_result == CompleteResult(timestamp, frame.filename,
                                               frame.result, frame.analysis)
             result_key == ResultKey(timestamp)
             written == put_object(store, frame.bucket, result_key,
                                   json_dumps(complete_result, 2))
         IN  /\ frame' = [timestamp |-> timestamp, complete_result |-> complete_result,
                          result_key |-> result_key] @@ frame
             /\ \/ /\ calls' = Append(calls, Called("put_object", TRUE))
                   /\ store' = written
                   /\ pc' = "finally"
                   /\ UNCHANGED exc
                \/ \* put_object raises; the request may or may not have been applied
                   /\ calls' = Append(calls, Called("put_object", FALSE))
                   /\ store' \in {store, written}
                   /\ Raise(Exception("ClientError", <<"put_object failed">>))
    /\ UNCHANGED <<event, response, invocations, fs, loads, Environment>>

\* a slip: the file is removed at the end of the try block, not in a finally
CleanupOnSuccessOnly ==
    /\ pc = "finally"
    /\ fs' = IF exc = NoExc /\ exists(frame.temp_audio_path)
             THEN remove(fs, frame.temp_audio_path)
             ELSE fs
    /\ pc' = "return"
    /\ UNCHANGED <<event, frame, response, exc, calls, invocations, store, loads,
                   Environment>>

\* the finally clause (201-204)
Finally ==
    /\ pc = "finally"
    /\ fs' = IF exists(frame.temp_audio_path) THEN remove(fs, frame.temp_audio_path) ELSE fs
    /\ pc' = "return"
    /\ UNCHANGED <<event, frame, response, exc, calls, invocations, store, loads,
                   Environment>>

\* back in lambda_handler: the 200 of lines 144-148, or the outermost except
TranscribeReturn ==
    /\ pc = "return"
    /\ IF exc = NoExc
       THEN Return(Response(200, frame.complete_result))
       ELSE Return(HandlerExcept(exc))
    /\ UNCHANGED <<event, exc, calls, invocations, store, fs, loads, Environment>>

(***************************************************************************)
(* The q_n_a branch (lambda_handler.py 165-200).                           *)
(***************************************************************************)
\* a slip: the three names are tried in the opposite order
SelectTranscriptReversed(transcript_data) ==
    Get(transcript_data, "text",
        Get(transcript_data, "transcript",
            Get(transcript_data, "original_transcript", "")))

\* the transcript get_transcript_from_s3 takes from the stored dict (98-100)
SelectTranscript(transcript_data) ==
    Get(transcript_data, "original_transcript",
        Get(transcript_data, "transcript",
            Get(transcript_data, "text", "")))

\* transcript = await get_transcript_from_s3(...) and the 404 (165-179, 87-110)
GetTranscriptFromS3 ==
    /\ pc = "get_transcript"
    /\ LET bucket == frame.transcript_bucket
           key == frame.transcript_file
       IN  \/ \* get_object raises for a reason of its own
              /\ calls' = Append(calls, Called("get_object", FALSE))
              /\ exc' = Exception("ClientError", <<"get_object failed">>)
              /\ Return(QnaExcept(exc'))
           \/ \* there is no object under the key
              /\ key \notin DOMAIN store[bucket]
              /\ calls' = Append(calls, Called("get_object", FALSE))
              /\ exc' = Exception("NoSuchKey", <<"The specified key does not exist.">>)
              /\ Return(QnaExcept(exc'))
           \/ /\ key \in DOMAIN store[bucket]
              /\ calls' = Append(calls, Called("get_object", TRUE))
              /\ LET content == store[bucket][key].Body
                 IN  IF ~IsJsonText(content)
                     THEN /\ exc' = Exception("JSONDecodeError", <<"Expecting value">>)
                          /\ Return(QnaExcept(exc'))
                     ELSE LET transcript == SelectTranscript(json_loads_body(content))
                          IN  IF Falsy(transcript)
                              THEN /\ Return(Response(404,
                                        [error |-> <<"Transcript not found or empty">>]))
                                   /\ UNCHANGED exc
                              ELSE /\ frame' = ("transcript" :> transcript) @@ frame
                                   /\ pc' = "qa"
                                   /\ UNCHANGED <<exc, response>>
    /\ UNCHANGED <<event, invocations, store, fs, loads, Environment>>

\* what the hosted model answers
Answers == { "I cannot answer this question based on the transcript content", "a course" }

\* a slip: the answer is also saved to the transcript's bucket
QaStoringAnswer ==
    /\ pc = "qa"
    /\ IF Falsy(INFERENCE_PROFILE_ARN)
       THEN /\ exc' = Exception("ValueError",
                        <<"INFERENCE_PROFILE_ARN environment variable is not set">>)
            /\ Return(QnaExcept(exc'))
            /\ UNCHANGED <<calls, store>>
       ELSE \/ /\ calls' = Append(calls, Called("invoke_model", FALSE))
               /\ exc' = Exception("ClientError", <<"invoke_model failed">>)
               /\ Return(QnaExcept(exc'))
               /\ UNCHANGED store
            \/ \E answer \in Answers :
                 /\ calls' = Append(calls, Replied("invoke_model", answer))
                 /\ store' = [store EXCEPT ![frame.transcript_bucket] =
                                 ("answers/last.json" :> S3Object(json_dumps([answer |-> answer], 2)))
                                 @@ store[frame.transcript_bucket]]
                 /\ Return(Response(200, [question |-> frame.question,
                                          answer |-> answer,
                                          transcript_file |-> frame.transcript_file]))
                 /\ UNCHANGED exc
    /\ UNCHANGED <<event, invocations, fs, loads, Environment>>

\* answer = await qa_with_claude(transcript, question) and the 200 (181-200, 32-85)
QaWithClaude ==
    /\ pc = "qa"
    /\ IF Falsy(INFERENCE_PROFILE_ARN)
       THEN /\ exc' = Exception("ValueError",
                        <<"INFERENCE_PROFILE_ARN environment variable is not set">>)
            /\ Return(QnaExcept(exc'))
            /\ UNCHANGED calls
       ELSE \/ /\ calls' = Append(calls, Called("invoke_model", FALSE))
               /\ exc' = Exception("ClientError", <<"invoke_model failed">>)
               /\ Return(QnaExcept(exc'))
            \/ \E answer \in Answers :
                 /\ calls' = Append(calls, Replied("invoke_model", answer))
                 /\ Return(Response(200, [question |-> frame.question,
                                          answer |-> answer,
                                          transcript_file |-> frame.transcript_file]))
                 /\ UNCHANGED exc
    /\ UNCHANGED <<event, invocations, store, fs, loads, Environment>>

Next ==
    \/ \E ev \in Events : LambdaHandler(ev)
    \/ DownloadFile
    \/ LoadModel
    \/ Transcribe
    \/ AnalyzeWithClaude(SampleReplies)
    \/ PutObject
    \/ Finally
    \/ TranscribeReturn
    \/ GetTranscriptFromS3
    \/ QaWithClaude

Spec == Init /\ [][Next]_vars

(***************************************************************************)
(* The Analysis Adapter over every reply: the first invocation of a        *)
(* process, a transcribe event with a valid key, and any reply of at most  *)
(* MaxReplyLen tokens.                                                     *)
(***************************************************************************)
AnalyzeEvents == { [Records |-> <<S3Record("b1", KeyCall1)>>] }

NextAnalyze ==
    \/ \E ev \in AnalyzeEvents : invocations = 0 /\ LambdaHandler(ev)
    \/ DownloadFile
    \/ LoadModel
    \/ Transcribe
    \/ AnalyzeWithClaude(Replies(MaxReplyLen))
    \/ PutObject
    \/ Finally
    \/ TranscribeReturn

SpecAnalyze == Init /\ [][NextAnalyze]_vars

(***************************************************************************)
(* The key space of validate_audio_file: the first invocation only, with   *)
(* one S3 record whose key is a beginning, a middle part of at most        *)
(* MaxStem characters and an ending.                                       *)
(***************************************************************************)
KeyBeginnings ==
    { AudioPrefix, <<"A", "u", "d", "i", "o", "/">>, <<"a", "u", "d", "i", "o">>,
      <<"x", "/", "a", "u", "d", "i", "o", "/">>, <<>> }

KeyMiddles == UNION { [1..m -> {"a", ".", "/"}] : m \in 0..MaxStem }

KeyEndings ==
    { <<>>, <<".", "m", "p", "3">>, <<".", "M", "P", "3">>, <<".", "M", "p", "3">>,
      <<".", "w", "a", "v">>, <<".", "m", "4", "a">>, <<".", "F", "l", "a", "c">>,
      <<".", "o", "g", "g">>, <<".", "a", "a", "C">>, <<".", "x", "y", "z">>,
      <<".", "m", "p">>, <<"m", "p", "3">>, <<".", "m", "p", "3", "x">>,
      <<".", "m", "p", "4">> }

ValidateEvents ==
    { [Records |-> <<S3Record("b1", b \o m \o e)>>] :
        b \in KeyBeginnings, m \in KeyMiddles, e \in KeyEndings }

NextValidate == \E ev \in ValidateEvents : invocations = 0 /\ LambdaHandler(ev)

SpecValidate == Init /\ [][NextValidate]_vars

(***************************************************************************)
(* What the properties below read from the state.                          *)
(***************************************************************************)
\* the external call `op` was issued in this invocation / returned normally
Issued(op) == \E i \in 1..Len(calls) : calls[i].op = op
Succeeded(op) == \E i \in 1..Len(calls) : calls[i].op = op /\ calls[i].ok

\* the operation the event selects
OperationOf(ev) == IF "operation" \in DOMAIN ev THEN ev.operation ELSE "transcribe"

\* an invocation has returned
Returned == pc = "idle" /\ invocations > 0

\* the error string of a response body
ErrorOf(resp) == resp.body.json.error

ConfigurationMessage == <<"INFERENCE_PROFILE_ARN environment variable is not set">>

(***************************************************************************)
(* C1: when process_audio_file has returned or raised, whichever step      *)
(* failed or none, no file exists at the scratch path temp_dir/filename.   *)
(***************************************************************************)
C1_ScratchFileAbsentAfterRun ==
    pc = "return" => frame.temp_audio_path \notin DOMAIN fs

\* a run that downloaded the file and then failed in transcription is over
C1_Witness ==
    /\ pc = "return"
    /\ Succeeded("download_file")
    /\ exc = Exception("RuntimeError", <<"transcribe failed">>)

(***************************************************************************)
(* C2: storage changes only in the persist step of a run whose download,   *)
(* transcription and analysis have succeeded; a step that fails before the *)
(* persist step writes nothing, and once a step has failed the run issues  *)
(* no further call, writes nothing and hands the exception to the router.  *)
(***************************************************************************)
C2_PersistOnlyAfterAllSteps ==
    [][ /\ store' # store =>
              /\ pc = "persist"
              /\ exc = NoExc
              /\ Succeeded("download_file")
              /\ Succeeded("transcribe")
              /\ Succeeded("invoke_model")
        /\ (pc \in {"download", "load_model", "transcribe", "analyze"} /\ exc' # NoExc) =>
              /\ store' = store
              /\ pc' = "finally"
        /\ (pc \in {"finally", "return"} /\ exc # NoExc) =>
              /\ calls' = calls
              /\ store' = store
              /\ exc' = exc
              /\ pc' = "idle" => response' = HandlerExcept(exc)
      ]_vars

\* a run whose analysis failed has returned and the bucket is as it was
C2_Witness ==
    /\ pc = "return"
    /\ exc = Exception("ClientError", <<"invoke_model failed">>)
    /\ Succeeded("transcribe")
    /\ store = InitialStore

(***************************************************************************)
(* C3: every invocation of lambda_handler returns a response whose status  *)
(* is 200, 400, 404 or 500 and whose body is JSON text; if an exception    *)
(* was raised on the way the status is 500 and the body's error string     *)
(* carries the exception's message.                                        *)
(***************************************************************************)
C3_StructuredResponse ==
    Returned =>
        /\ response.statusCode \in {200, 400, 404, 500}
        /\ IsJsonText(response.body)
        /\ exc # NoExc =>
              /\ response.statusCode = 500
              /\ \/ ErrorOf(response) = exc.msg
                 \/ ErrorOf(response) = <<"Error processing Q&A: ">> \o exc.msg

\* the pipeline raised in the model load and the router answered
C3_Witness ==
    /\ Returned
    /\ exc = Exception("RuntimeError", <<"load_model failed">>)
    /\ response.statusCode = 500

(***************************************************************************)
(* C4: an event that fails validation (an operation other than transcribe  *)
(* and q_n_a; transcribe without records; transcribe whose first record's  *)
(* key is not under audio/ with an allowed extension; q_n_a with one of    *)
(* its three parameters absent or empty) is answered 400 and no external   *)
(* call is made for it.                                                    *)
(***************************************************************************)
FailsValidation(ev) ==
    \/ OperationOf(ev) \notin {"transcribe", "q_n_a"}
    \/ /\ OperationOf(ev) = "transcribe"
       /\ \/ "Records" \notin DOMAIN ev
          \/ ev.Records = <<>>
          \/ /\ "s3" \in DOMAIN ev.Records[1]
             /\ ~validate_audio_file(ev.Records[1].s3.object.key)
    \/ /\ OperationOf(ev) = "q_n_a"
       /\ \E p \in {"transcript_file", "transcript_bucket", "question"} :
             p \notin DOMAIN ev \/ ev[p] = ""

C4_ValidationFailureIs400WithoutCalls ==
    (invocations > 0 /\ FailsValidation(event)) =>
        /\ pc = "idle"
        /\ response.statusCode = 400
        /\ calls = <<>>

\* a q_n_a event with an empty question has been answered
C4_Witness ==
    /\ Returned
    /\ OperationOf(event) = "q_n_a"
    /\ {"transcript_file", "transcript_bucket", "question"} \subseteq DOMAIN event
    /\ event.transcript_file # ""
    /\ event.question = ""
    /\ response.statusCode = 400

(***************************************************************************)
(* C5: a transcribe event with a valid key whose five pipeline steps all   *)
(* succeed is answered 200 with the Result Document as body; the           *)
(* document's filename is what follows the last "/" of the key, its id is  *)
(* a timestamp, and the bucket of the first record holds that document     *)
(* under transcripts/<id>.json.                                            *)
(***************************************************************************)
AllStepsSucceeded ==
    /\ Len(calls) = 5
    /\ \A i \in 1..5 : calls[i].ok
    /\ [i \in 1..5 |-> calls[i].op] =
          <<"download_file", "load_model", "transcribe", "invoke_model", "put_object">>

\* name is what follows the last "/" of key
IsLastSegmentOf(name, key) ==
    /\ Len(name) < Len(key)
    /\ key[Len(key) - Len(name)] = "/"
    /\ SubSeq(key, Len(key) - Len(name) + 1, Len(key)) = name
    /\ \A i \in 1..Len(name) : name[i] # "/"

C5_SuccessReturnsStoredDocument ==
    (Returned /\ AllStepsSucceeded) =>
        /\ response.statusCode = 200
        /\ LET doc == response.body.json
               record == event.Records[1].s3
           IN  /\ IsLastSegmentOf(doc.filename, record.object.key)
               /\ doc.id \in { strftime(t) : t \in 0..MaxTime }
               /\ doc.metadata.processed_at = doc.id
               /\ ResultKey(doc.id) \in DOMAIN store[record.bucket.name]
               /\ store[record.bucket.name][ResultKey(doc.id)].Body = json_dumps(doc, 2)

\* the event for audio/d/C2.MP3 in bucket b2 has been answered 200
C5_Witness ==
    /\ Returned
    /\ AllStepsSucceeded
    /\ event.Records[1] = S3Record("b2", KeyUpper)
    /\ response.statusCode = 200
    /\ response.body.json.filename = <<"C", "2", ".", "M", "P", "3">>

(***************************************************************************)
(* C6: the transcript handed to the Q&A adapter is the value of the first  *)
(* of original_transcript, transcript, text that the stored object has;    *)
(* when it has none of them, or that value is empty, the answer is 404 and *)
(* the hosted model is not invoked.                                        *)
(***************************************************************************)
\* the stored dict the q_n_a event names
StoredDict(file, bucket) == store[bucket][file].Body.json

\* v is the value of the first of the three names d has
IsFirstPresent(v, d) ==
    \/ "original_transcript" \in DOMAIN d /\ v = d.original_transcript
    \/ /\ "original_transcript" \notin DOMAIN d
       /\ "transcript" \in DOMAIN d /\ v = d.transcript
    \/ /\ {"original_transcript", "transcript"} \cap DOMAIN d = {}
       /\ "text" \in DOMAIN d /\ v = d.text

C6_TranscriptFieldPriority ==
    /\ pc = "qa" =>
          /\ frame.transcript # ""
          /\ IsFirstPresent(frame.transcript,
                            StoredDict(frame.transcript_file, frame.transcript_bucket))
    /\ (Returned /\ OperationOf(event) = "q_n_a" /\ Succeeded("get_object")
          /\ IsJsonText(store[event.transcript_bucket][event.transcript_file].Body)) =>
          LET d == StoredDict(event.transcript_file, event.transcript_bucket)
          IN  (\/ {"original_transcript", "transcript", "text"} \cap DOMAIN d = {}
               \/ IsFirstPresent("", d)) =>
                  /\ response.statusCode = 404
                  /\ ~Issued("invoke_model")

\* the object that has only `text` reached the adapter with that value
C6_Witness ==
    /\ pc = "qa"
    /\ frame.transcript_file = "transcripts/text.json"
    /\ DOMAIN StoredDict(frame.transcript_file, frame.transcript_bucket) = {"text"}
    /\ frame.transcript = "T3"

(***************************************************************************)
(* C7: across the runs one process serves, whisper.load_model is called at *)
(* most once.                                                              *)
(***************************************************************************)
C7_ModelLoadedAtMostOnce == loads <= 1

ConfigurationError == Exception("ValueError", ConfigurationMessage)

CallsBeforeAnalysis ==
    <<Called("download_file", TRUE), Called("load_model", TRUE), Called("transcribe", TRUE)>>

C9_NotFoundIsNot500 ==
    Returned =>
        /\ exc.type = "FileNotFoundError" => response.statusCode = 400
        /\ exc.type = "NoSuchKey" => response.statusCode = 404

(***************************************************************************)
(* C9, amended: a not-found condition that is an exception is answered     *)
(* 500 with the exception's message (the scratch file missing after the    *)
(* download; get_object finding no such key, prefixed "Error processing    *)
(* Q&A: "); only a transcript object that was fetched and holds no         *)
(* transcript, or an empty one, is answered 404.                           *)
(***************************************************************************)
C9_NotFoundExceptionIs500 ==
    Returned =>
        /\ exc.type = "FileNotFoundError" =>
              /\ response.statusCode = 500
              /\ ErrorOf(response) = <<"File not found: ">> \o <<temp_dir, "/">>
                                         \o LastSegment(event.Records[1].s3.object.key)
        /\ exc.type = "NoSuchKey" =>
              /\ event.transcript_file \notin DOMAIN store[event.transcript_bucket]
              /\ response.statusCode = 500
              /\ ErrorOf(response) = <<"Error processing Q&A: ">> \o exc.msg
        /\ response.statusCode = 404 =>
              /\ exc = NoExc
              /\ calls = <<Called("get_object", TRUE)>>
              /\ SelectTranscript(StoredDict(event.transcript_file,
                                             event.transcript_bucket)) = ""
        /\ response.statusCode = 400 => calls = <<>>

\* a q_n_a invocation named a key the bucket does not hold
C9_Witness ==
    /\ Returned
    /\ exc.type = "NoSuchKey"
    /\ event.transcript_file = "transcripts/gone.json"
    /\ response.statusCode = 500

(***************************************************************************)
(* C10: when the hosted-model call has returned, analyze_with_claude       *)
(* returns and the run stands at the persist step; the analysis is the     *)
(* object parsed from the reply's first "{" to its last "}" if that text   *)
(* is JSON, and otherwise the degraded document: the error marker, the     *)
(* whole reply as raw_response and its first SummaryLimit characters as    *)
(* summary.                                                                *)
(***************************************************************************)
\* the text from the first "{" to the last "}", empty if there is none
BraceSpan(text) ==
    LET opens == { i \in 1..Len(text) : text[i] = "{" }
        closes == { i \in 1..Len(text) : text[i] = "}" }
    IN  IF opens = {} \/ closes = {}
        THEN <<>>
        ELSE SubSeq(text, CHOOSE i \in opens : \A j \in opens : i <= j,
                          CHOOSE i \in closes : \A j \in closes : i >= j)

C11_ResultDocumentWrittenOnce ==
    [][ \A b \in Buckets : \A k \in DOMAIN store[b] :
            k \in DOMAIN store'[b] /\ store'[b][k] = store[b][k] ]_vars

(***************************************************************************)
(* C12: no step of a q_n_a invocation changes object storage or issues a   *)
(* put_object, whatever its answer (400, 404, 200, 500); its 200 body has  *)
(* the event's question and transcript_file and, as answer, the text the   *)
(* hosted model returned.                                                  *)
(***************************************************************************)
C12_QnaWritesNothing ==
    [][ /\ (\/ pc = "idle" /\ OperationOf(event') = "q_n_a"
            \/ pc \in {"get_transcript", "qa"}) =>
              /\ store' = store
              /\ fs' = fs
              /\ \A i \in 1..Len(calls') : calls'[i].op \in {"get_object", "invoke_model"}
        /\ (pc = "qa" /\ pc' = "idle" /\ response'.statusCode = 200) =>
              /\ DOMAIN response'.body.json = {"question", "answer", "transcript_file"}
              /\ response'.body.json.question = event.question
              /\ response'.body.json.transcript_file = event.transcript_file
              /\ response'.body.json.answer = calls'[Len(calls')].text
      ]_vars

\* a q_n_a invocation was answered 200 and the bucket is as it was
C12_Witness ==
    /\ Returned
    /\ OperationOf(event) = "q_n_a"
    /\ response.statusCode = 200
    /\ response.body.json.answer = "a course"
    /\ store = InitialStore

(***************************************************************************)
(* C13: a key is accepted exactly when it starts with audio/ and its       *)
(* extension, letters compared without regard to case, is one of mp3, wav, *)
(* m4a, flac, ogg, aac.  The extension is what follows the last dot of the *)
(* key's last path segment, when something other than dots precedes that   *)
(* dot in the segment (os.path.splitext's notion of an extension).         *)
(***************************************************************************)
ExtensionNames ==
    { <<"m", "p", "3">>, <<"w", "a", "v">>, <<"m", "4", "a">>,
      <<"f", "l", "a", "c">>, <<"o", "g", "g">>, <<"a", "a", "c">> }

SameLetter(a, b) ==
    \/ a = b
    \/ \E u \in 1..Len(Uppers) : {a, b} = {Uppers[u], Lowers[u]}

\* the key's extension is `name`, whatever the case of its letters
HasExtension(key, name) ==
    \E d \in 1..Len(key) :
        /\ key[d] = "."
        /\ Len(key) - d = Len(name)
        /\ \A i \in 1..Len(name) : SameLetter(key[d + i], name[i])
        /\ \E f \in 1..(d - 1) : /\ key[f] # "."
                                 /\ \A j \in f..d : key[j] # "/"

InAudioFolder(key) ==
    /\ Len(key) >= Len(AudioPrefix)
    /\ \A i \in 1..Len(AudioPrefix) : key[i] = AudioPrefix[i]

C13_ValidateAudioFile ==
    invocations > 0 =>
        LET key == event.Records[1].s3.object.key
        IN  /\ (pc = "download") <=>
                  (InAudioFolder(key) /\ \E name \in ExtensionNames : HasExtension(key, name))
            /\ pc # "download" =>
                  /\ pc = "idle"
                  /\ response.statusCode = 400
                  /\ calls = <<>>

\* a key in audio/ with a mixed-case extension was accepted
C13_Witness ==
    /\ invocations > 0
    /\ pc = "download"
    /\ event.Records[1].s3.object.key =
           <<"a", "u", "d", "i", "o", "/", ".", "a", ".", "F", "l", "a", "c">>

(***************************************************************************)
(* C14: what a transcribe event with records gets depends on its first     *)
(* record only.  A first record that is no S3 notification gets 500 and a  *)
(* first record whose key is not accepted gets 400, both without an        *)
(* external call, whatever follows it; otherwise one pipeline run is       *)
(* started, on the first record's bucket and key, the document answered is *)
(* stored in that bucket, and the download is issued once.                 *)
(***************************************************************************)
Count(op) == Cardinality({ i \in 1..Len(calls) : calls[i].op = op })

C14_OnlyFirstRecordUsed ==
    (invocations > 0 /\ OperationOf(event) = "transcribe"
        /\ Get(event, "Records", <<>>) # <<>>) =>
        LET first == event.Records[1]
        IN  /\ Count("download_file") <= 1
            /\ IF "s3" \notin DOMAIN first
               THEN pc = "idle" /\ response.statusCode = 500 /\ calls = <<>>
               ELSE IF ~validate_audio_file(first.s3.object.key)
               THEN pc = "idle" /\ response.statusCode = 400 /\ calls = <<>>
               ELSE /\ pc # "idle" =>
                         /\ frame.bucket = first.s3.bucket.name
                         /\ frame.key = first.s3.object.key
                         /\ frame.filename = LastSegment(first.s3.object.key)
                    /\ pc = "idle" =>
                         /\ response.statusCode \in {200, 500}
                         /\ calls[1].op = "download_file"
                         /\ response.statusCode = 200 =>
                              /\ response.body.json.filename = LastSegment(first.s3.object.key)
                              /\ ResultKey(response.body.json.id)
                                     \in DOMAIN store[first.s3.bucket.name]

\* an event with two records, the first for bucket b1 and the second for
\* bucket b2, was answered 200 and bucket b2 is still empty
C14_Witness ==
    /\ Returned
    /\ OperationOf(event) = "transcribe"
    /\ Len(Get(event, "Records", <<>>)) = 2
    /\ event.Records[1] = S3Record("b1", KeyCall1)
    /\ event.Records[2] = S3Record("b2", KeyCall1)
    /\ response.statusCode = 200
    /\ DOMAIN store["b2"] = {}

(***************************************************************************)
(* C15: when the download has returned, a scratch file that is absent ends *)
(* the run with FileNotFoundError and one of zero bytes with ValueError    *)
(* "Downloaded file is empty"; only a file that exists and is not empty is *)
(* handed on.  Loading the model, transcribing, the hosted-model call and  *)
(* put_object are issued only while that file exists and is not empty, and *)
(* a run that failed one of the two checks has issued the download alone.  *)
(***************************************************************************)
EmptyFileError == Exception("ValueError", <<"Downloaded file is empty">>)

C15_NoTranscriptionOfMissingOrEmptyFile ==
    [][ /\ (pc = "download" /\ pc' # "download") =>
              LET path == frame.temp_audio_path
              IN  IF ~calls'[Len(calls')].ok
                  THEN pc' = "finally"
                  ELSE IF path \notin DOMAIN fs'
                  THEN pc' = "finally" /\ exc'.type = "FileNotFoundError"
                  ELSE IF fs'[path] = 0
                  THEN pc' = "finally" /\ exc' = EmptyFileError
                  ELSE pc' = "load_model"
        /\ (/\ pc \in {"load_model", "transcribe", "analyze", "persist"}
            /\ Len(calls') > Len(calls)) =>
              /\ calls'[Len(calls')].op
                     \in {"load_model", "transcribe", "invoke_model", "put_object"}
              /\ exists(frame.temp_audio_path)
              /\ fs[frame.temp_audio_path] > 0
        /\ (exc'.type = "FileNotFoundError" \/ exc' = EmptyFileError) =>
              calls' = <<Called("download_file", TRUE)>>
      ]_vars

\* a run stopped on a downloaded file of zero bytes
C15_Witness ==
    /\ pc = "finally"
    /\ exc = EmptyFileError
    /\ exists(frame.temp_audio_path)
    /\ fs[frame.temp_audio_path] = 0

(***************************************************************************)
(* C16: in one invocation each of download_file, get_object, load_model,   *)
(* transcribe, invoke_model and put_object is called at most once, and a   *)
(* call that raised is the last call of the invocation.                    *)
(***************************************************************************)
ExternalCalls ==
    {"download_file", "get_object", "load_model", "transcribe", "invoke_model",
     "put_object"}

C16_NoRetry ==
    /\ \A i \in 1..Len(calls) : calls[i].op \in ExternalCalls
    /\ \A op \in ExternalCalls : Count(op) <= 1
    /\ \A i \in 1..(Len(calls) - 1) : calls[i].ok

\* an invocation ended after its transcription raised, the third call
C16_Witness ==
    /\ Returned
    /\ response.statusCode = 500
    /\ Len(calls) = 3
    /\ calls[3] = Called("transcribe", FALSE)

(***************************************************************************)
(* C17: an event without an operation member is routed as a transcribe     *)
(* event.  A transcribe event never reaches the transcript fetch or the    *)
(* Q&A adapter and never calls get_object; with no records it gets the 400 *)
(* for missing records, with an accepted first record it starts the        *)
(* pipeline.  A q_n_a event never reaches a pipeline step and calls only   *)
(* get_object and invoke_model.  Any other operation gets 400 "Invalid     *)
(* operation" without any call.                                            *)
(***************************************************************************)
PipelineSteps ==
    {"download", "load_model", "transcribe", "analyze", "persist", "finally", "return"}

QnaSteps == {"get_transcript", "qa"}

C17_DispatchExclusiveAndDefaulted ==
    invocations > 0 =>
        LET operation == IF "operation" \in DOMAIN event THEN event.operation
                                                       ELSE "transcribe"
        IN  IF operation = "transcribe"
            THEN /\ pc \notin QnaSteps
                 /\ Count("get_object") = 0
                 /\ LET records == Get(event, "Records", <<>>)
                    IN  IF records = <<>>
                        THEN /\ pc = "idle"
                             /\ calls = <<>>
                             /\ response = Response(400,
                                    [error |-> <<"Missing S3 event records for transcription">>])
                        ELSE ("s3" \in DOMAIN records[1]
                                /\ validate_audio_file(records[1].s3.object.key)) =>
                                 (pc \in PipelineSteps \/ Count("download_file") = 1)
            ELSE IF operation = "q_n_a"
            THEN /\ pc \notin PipelineSteps
                 /\ \A i \in 1..Len(calls) : calls[i].op \in {"get_object", "invoke_model"}
                 /\ Count("invoke_model") = 1 => Count("get_object") = 1
                 /\ fs = <<>>
            ELSE /\ pc = "idle"
                 /\ calls = <<>>
                 /\ response = Response(400, [error |-> <<"Invalid operation: ", operation>>])

\* an event with records and no operation member was transcribed and
\* answered 200
C17_Witness ==
    /\ Returned
    /\ "operation" \notin DOMAIN event
    /\ "Records" \in DOMAIN event
    /\ response.statusCode = 200
    /\ Count("transcribe") = 1

====
